---- MODULE Spec2Model ----
(***************************************************************************)
(* The Streamlit chat page of src/apitest.py as a state machine.           *)
(*                                                                         *)
(* One script run (a Streamlit rerun) handles one trigger: Save, Export,   *)
(* Clear or Send.  st.session_state survives between runs; the locals of   *)
(* the script (assistant_content, streamed, resp) live for one run.  A     *)
(* Send run is split at the points where it waits for the transport: one   *)
(* step per streaming event, one for the end of the stream, one for the    *)
(* blocking response.  The page runs the script synchronously, so no       *)
(* other trigger is handled while a Send run is in progress.               *)
(*                                                                         *)
(* Text is a sequence of chunks (strings); "" is the empty sequence and    *)
(* string concatenation is \o.  Values the transport hands back are        *)
(* tagged records (PyNone, PyStr, PyList, PyDict, PyObj, PyNum), so that   *)
(* the duck-typed probing of the code can be followed test by test.        *)
(***************************************************************************)
EXTENDS Integers, Sequences, FiniteSets, TLC

\* Bounds of the model.
MaxTurns == 2     \* user/assistant pairs a transcript may hold
MaxEvents == 2    \* events one stream may deliver

----------------------------------------------------------------------------
\* Python values.

PyNone == [t |-> "none"]
PyStr(s) == [t |-> "str", v |-> s]
PyList(l) == [t |-> "list", v |-> l]
\* a dict: m maps its keys to values
PyDict(m) == [t |-> "dict", m |-> m]
\* an object: a maps its attributes to values, g says whether it has a
\* .get method, m holds the items .get reads
PyObj(a, g, m) == [t |-> "obj", a |-> a, g |-> g, m |-> m]
\* a number: truthy, neither text nor container
PyNum == [t |-> "num"]
\* an attribute whose access raises
PyRaise == [t |-> "raise"]

NoItems == [k \in {} |-> PyNone]
EmptyDict == PyDict(NoItems)

IsNone(x) == x.t = "none"
IsStr(x) == x.t = "str"
IsDict(x) == x.t = "dict"
IsList(x) == x.t = "list"
IsRaise(x) == x.t = "raise"

\* bool(x)
Truthy(x) ==
    CASE x.t = "none" -> FALSE
      [] x.t = "str" -> Len(x.v) > 0
      [] x.t = "list" -> Len(x.v) > 0
      [] x.t = "dict" -> DOMAIN x.m # {}
      [] OTHER -> TRUE

\* hasattr(x, n): FALSE as well when the access raises
HasAttr(x, n) == x.t = "obj" /\ n \in DOMAIN x.a /\ ~IsRaise(x.a[n])
\* hasattr(x, "get")
HasGet(x) == x.t = "dict" \/ (x.t = "obj" /\ x.g)
\* x.get(k, d)
Get(x, k, d) == IF k \in DOMAIN x.m THEN x.m[k] ELSE d
\* getattr(x, n, None)
GetAttr(x, n) ==
    IF x.t = "obj" /\ n \in DOMAIN x.a THEN x.a[n] ELSE PyNone

\* a or b
Or(a, b) == IF Truthy(a) THEN a ELSE b

----------------------------------------------------------------------------
\* Text.

\* chunks that are whitespace only
Whitespace == {" ", "\n"}

\* str.strip()
RECURSIVE LStrip(_)
LStrip(s) ==
    IF s # <<>> /\ Head(s) \in Whitespace THEN LStrip(Tail(s)) ELSE s
RECURSIVE RStrip(_)
RStrip(s) ==
    IF s # <<>> /\ s[Len(s)] \in Whitespace
    THEN RStrip(SubSeq(s, 1, Len(s) - 1))
    ELSE s
\* Strip that strips nothing
NoStrip(s) == s

Strip(s) == RStrip(LStrip(s))

\* ErrorText without the "Error: " prefix
ErrorTextBare(e) == e

\* f"Error: {e}"
ErrorText(e) == <<"Error: ">> \o e

\* the literal of the innermost except clause
NoTextSentinel == <<"(no text could be extracted from the model response)">>

\* str(c) of a value that is part of a message content
StrOf(c) ==
    CASE c.t = "str" -> c.v
      [] c.t = "none" -> <<"None">>
      [] c.t = "num" -> <<"7">>
      [] OTHER -> <<"<object>">>

----------------------------------------------------------------------------
\* Extraction of the text fragment of one streaming event.

\* first strategy: event.delta is a dict, take its "content"
DeltaAttr(event) ==
    IF HasAttr(event, "delta") /\ IsDict(event.a.delta)
    THEN Get(event.a.delta, "content", PyNone)
    ELSE PyNone

\* second strategy: event.get("choices")[0].get("delta", {}).get("content");
\* whatever raises on the way leaves None
DeltaMapping(event) ==
    IF ~HasGet(event) THEN PyNone
    ELSE LET choices == Get(event, "choices", PyNone) IN
         IF ~Truthy(choices) THEN PyNone
         ELSE IF ~IsList(choices) THEN PyNone
         ELSE LET first == choices.v[1] IN
              IF ~HasGet(first) THEN PyNone
              ELSE LET d == Get(first, "delta", EmptyDict) IN
                   IF ~HasGet(d) THEN PyNone
                   ELSE Get(d, "content", PyNone)

\* third strategy: getattr(event, "text", None)
DeltaText(event) ==
    LET x == GetAttr(event, "text") IN IF IsRaise(x) THEN PyNone ELSE x

\* ExtractDelta with the first strategy alone
ExtractDeltaAttrOnly(event) == DeltaAttr(event)

\* a later strategy is tried only while delta is None
ExtractDelta(event) ==
    LET d1 == DeltaAttr(event)
        d2 == IF IsNone(d1) THEN DeltaMapping(event) ELSE d1
    IN  IF IsNone(d2) THEN DeltaText(event) ELSE d2

\* AppendDelta with the operands swapped
PrependDelta(content, delta) == delta \o content

\* assistant_content += delta
AppendDelta(content, delta) == content \o delta

----------------------------------------------------------------------------
\* Extraction of the text of a blocking response.

\* an exception raised inside the extraction
PyExc == [t |-> "exc"]
IsExc(x) == x.t = "exc"

\* one element of the join: c.get("text", "") of a dict, str(c) otherwise
PartText(c) ==
    IF IsDict(c) THEN Get(c, "text", PyStr(<<>>)) ELSE PyStr(StrOf(c))

RECURSIVE Concat(_)
Concat(texts) ==
    IF texts = <<>> THEN <<>> ELSE Head(texts) \o Concat(Tail(texts))

\* "".join([...]): TypeError when an element is no str
JoinParts(parts) ==
    IF \E i \in DOMAIN parts : ~IsStr(PartText(parts[i]))
    THEN PyExc
    ELSE PyStr(Concat([i \in DOMAIN parts |-> PartText(parts[i]).v]))

\* msg.get("content"), its parts joined when it is a non-empty list
MessageContent(msg) ==
    LET c == Get(msg, "content", PyNone) IN
    IF IsList(c) /\ Len(c.v) > 0 THEN JoinParts(c.v) ELSE c

\* 1) dict-like responses
MappingContent(resp) ==
    IF ~HasGet(resp) THEN PyNone
    ELSE LET choices == Get(resp, "choices", PyNone) IN
         IF ~(Truthy(choices) /\ IsList(choices)) THEN PyNone
         ELSE LET first == choices.v[1] IN
              IF ~IsDict(first) THEN PyNone
              ELSE LET msg == Or(Get(first, "message", PyNone),
                                 Get(first, "message", EmptyDict))
                       c == IF IsDict(msg) THEN MessageContent(msg) ELSE PyNone
                   IN  IF IsExc(c) THEN c
                       ELSE IF ~Truthy(c) THEN Get(first, "text", PyNone)
                       ELSE c

\* 2) object-like responses, tried while content is falsy
ObjectContent(resp, content) ==
    IF Truthy(content) \/ ~HasAttr(resp, "choices") THEN content
    ELSE LET ch == resp.a.choices IN
         IF ~Truthy(ch) THEN content
         ELSE IF ~IsList(ch) THEN PyExc
         ELSE LET first == ch.v[1]
                  msg == GetAttr(first, "message")
              IN  IF IsRaise(msg) THEN PyExc
                  ELSE LET c == IF Truthy(msg)
                                THEN Or(GetAttr(msg, "content"),
                                        GetAttr(msg, "text"))
                                ELSE content
                       IN  IF ~Truthy(c) THEN GetAttr(first, "text") ELSE c

\* the try block of the extraction: an exception leaves content None
ExtractContent(resp) ==
    LET m == MappingContent(resp) IN
    IF IsExc(m) THEN PyNone
    ELSE LET o == ObjectContent(resp, m) IN
         IF IsExc(o) THEN PyNone ELSE o

\* FinalContent without the final fallback
FinalContentNoFallback(r) ==
    LET c == ExtractContent(r.val) IN IF Truthy(c) THEN c ELSE PyStr(<<>>)

\* final fallback: str(resp), the sentinel when str(resp) raises.
\* A response r is [val |-> the value probed, str |-> what str(resp) gives]
FinalContent(r) ==
    LET c == ExtractContent(r.val) IN
    IF Truthy(c) THEN c
    ELSE IF IsRaise(r.str) THEN PyStr(NoTextSentinel)
    ELSE r.str

----------------------------------------------------------------------------
\* What the page and the transport may supply.

Plain(a) == PyObj(a, FALSE, NoItems)
Hi == <<"Hi">>
There == <<" there!">>
DeltaDict(text) == PyDict([content |-> text])
ChoiceList(first) == PyList(<<first>>)

\* streaming events, one per shape the extraction distinguishes
Events == <<
    \* event.delta is a dict
    Plain([delta |-> DeltaDict(PyStr(Hi))]),
    \* a mapping with choices[0].delta.content
    PyDict([choices |-> ChoiceList(PyDict([delta |-> DeltaDict(PyStr(There))]))]),
    \* only a text attribute
    Plain([text |-> PyStr(There)]),
    \* event.delta is the text itself, no dict
    Plain([delta |-> PyStr(Hi)]),
    \* delta content is "", a text attribute beside it
    Plain([delta |-> DeltaDict(PyStr(<<>>)), text |-> PyStr(There)]),
    \* event.delta raises, the mapping holds the fragment
    PyObj([delta |-> PyRaise], TRUE,
          [choices |-> ChoiceList(PyDict([delta |-> DeltaDict(PyStr(There))]))]),
    \* delta content is None, choices[0].delta is None, text holds the fragment
    PyObj([delta |-> DeltaDict(PyNone), text |-> PyStr(Hi)], TRUE,
          [choices |-> ChoiceList(PyDict([delta |-> PyNone]))]),
    \* the text attribute is a number
    Plain([text |-> PyNum]) >>

\* blocking responses; str(resp) of a dict or an SDK object is a non-empty
\* text, or raises
Responses == <<
    \* SDK object: choices[0].message.content
    [val |-> Plain([choices |-> ChoiceList(Plain([message |->
                Plain([content |-> PyStr(Hi)])]))]),
     str |-> PyStr(<<"ChatCompletion(content='Hi')">>)],
    \* mapping whose message content is a list of parts
    [val |-> PyDict([choices |-> ChoiceList(PyDict([message |->
                PyDict([content |-> PyList(<<PyDict([text |-> PyStr(Hi)]),
                                             PyStr(There)>>)])]))]),
     str |-> PyStr(<<"{'choices': [{'message': ...}]}">>)],
    \* mapping with no message content and a text field
    [val |-> PyDict([choices |-> ChoiceList(PyDict([message |->
                PyDict([content |-> PyNone]), text |-> PyStr(There)]))]),
     str |-> PyStr(<<"{'choices': [{'text': ...}]}">>)],
    \* mapping without choices
    [val |-> PyDict([error |-> PyStr(<<"bad request">>)]),
     str |-> PyStr(<<"{'error': 'bad request'}">>)],
    \* SDK object whose message has no content
    [val |-> Plain([choices |-> ChoiceList(Plain([message |->
                Plain([content |-> PyNone])]))]),
     str |-> PyStr(<<"ChatCompletion(content=None)">>)],
    \* mapping object with a part whose text is None, and str() raising
    [val |-> PyObj([id |-> PyNum], TRUE, [choices |-> ChoiceList(PyDict([message |->
                PyDict([content |-> PyList(<<PyDict([text |-> PyNone])>>)])]))]),
     str |-> PyRaise] >>

\* str(e) of the exceptions (subclasses of Exception) a transport call may
\* raise; the description may be empty
Errors == << <<"timeout">>, <<>> >>

\* what the text area may hold when a button is pressed
UserTexts == { <<>>, <<" ">>, <<"Say hi">> }

\* options of the model selectbox (two of the four)
Models == {"gpt-3.5-turbo", "gpt-4o"}
DefaultModel == "gpt-3.5-turbo"
MinMaxTokens == 50
DefaultMaxTokens == 512
\* temperature in tenths
DefaultTemperature == 2
MaxTemperature == 10

\* what Save may store: the defaults, or other values of the widgets' ranges
SettingsChoices ==
    { [model |-> DefaultModel, max_tokens |-> DefaultMaxTokens,
       temperature |-> DefaultTemperature],
      [model |-> "gpt-4o", max_tokens |-> MinMaxTokens,
       temperature |-> MaxTemperature] }

\* keys: "" is no key
EnvKeys == {"", "sk-env"}
InputKeys == {"", "sk-input"}

----------------------------------------------------------------------------
\* json.dumps(messages, indent=2) as a sequence of tokens.

\* JsonEscape that escapes nothing
JsonEscapeNone(c) == c

JsonEscape(c) ==
    CASE c = "\"" -> "\\\""
      [] c = "\\" -> "\\\\"
      [] c = "\n" -> "\\n"
      [] OTHER -> c

JsonString(text) ==
    <<"\"">> \o [i \in DOMAIN text |-> JsonEscape(text[i])] \o <<"\"">>

JsonMessage(m) ==
    <<"{", "\n    ", "\"role\"", ": ">> \o JsonString(<<m.role>>)
    \o <<",", "\n    ", "\"content\"", ": ">> \o JsonString(m.content)
    \o <<"\n  ", "}">>

RECURSIVE JsonItems(_)
JsonItems(ms) ==
    IF ms = <<>> THEN <<>>
    ELSE <<"\n  ">> \o JsonMessage(Head(ms))
         \o (IF Tail(ms) = <<>> THEN <<"\n">> ELSE <<",">>)
         \o JsonItems(Tail(ms))

Dumps(ms) == IF ms = <<>> THEN <<"[]">> ELSE <<"[">> \o JsonItems(ms) \o <<"]">>

----------------------------------------------------------------------------
\* State.

VARIABLES
    \* st.session_state and the process environment
    messages,           \* st.session_state["messages"]
    api_key_input,      \* st.session_state["api_key_input"]
    env_key,            \* os.environ["OPENAI_API_KEY"], "" when unset
    model, max_tokens, temperature,     \* the saved settings widgets
    \* locals of the running script
    pc,                 \* "idle", or where a Send run waits: "stream", "block"
    assistant_content,
    streamed,
    \* what the page hands out in a run
    exported,           \* <<doc>> when the download button holds doc, else <<>>
    warnings,           \* the st.warning texts shown in the last run
    \* history of the last run
    lastOp,             \* the trigger the last run handled
    pre,                \* the transcript when the last run began
    submitted,          \* the text area's value in the last run, if Send was pressed
    clears,             \* Clear runs in a row ending here (counted up to 2)
    fragments,          \* the fragments applied so far, in arrival order
    nEvents,            \* events the open stream has delivered, 0 once it is closed
    lastEvent,          \* <<event>> right after the step that processed event
    streamRaised,       \* the streaming attempt ended in an exception
    requests,           \* the calls made to the client, in order
    respGot,            \* <<r>> when the blocking call returned r
    errGot,             \* <<e>> when the outer handler caught e
    fault,              \* an exception left the Send handler
    \* several browser sessions served by one process
    heap,               \* the list objects: reference -> its items
    sessions,           \* session -> its session_state and the locals of its run
    \* the key validator
    validation          \* the validation attempt under way or just finished

\* the state of the one session of Spec
page == <<messages, api_key_input, env_key, model, max_tokens, temperature,
          pc, assistant_content, streamed, exported, warnings, lastOp, pre,
          submitted, clears, fragments, nEvents, lastEvent, streamRaised,
          requests, respGot, errGot, fault>>

vars == <<page, heap, sessions, validation>>

\* the browser sessions, and room for one list each and one being built
Sessions == {"A", "B"}
Refs == 1..(Cardinality(Sessions) + 1)

\* no list object yet, no session with a script run yet
NoHeap == [r \in Refs |-> <<>>]
NoSession ==
    [ref |-> 0, pc |-> "idle", assistant_content |-> <<>>, streamed |-> FALSE,
     nEvents |-> 0]
NoSessions == [s \in Sessions |-> NoSession]

\* no validation attempted
NoValidation ==
    [pc |-> "idle", credential |-> "", request |-> <<>>, outcome |-> <<>>,
     result |-> <<>>]

settings == <<api_key_input, env_key, model, max_tokens, temperature>>

SystemMessage == [role |-> "system", content |-> <<"You are a helpful assistant.">>]
FreshTranscript == <<SystemMessage>>

\* get_api_key preferring the pasted key
get_api_key_input_first ==
    IF api_key_input # "" THEN api_key_input ELSE env_key

\* get_api_key()
get_api_key == IF env_key # "" THEN env_key ELSE api_key_input

\* the client of a run: <<key>>, or <<>> for None
client == IF get_api_key # "" THEN <<get_api_key>> ELSE <<>>

NoKeyWarning == "No API key found."
CannotSendWarning == "Cannot send message because OpenAI client is not configured."

\* the warning of the client setup, with key k
SetupWarnings(k) == IF k # "" THEN {} ELSE {NoKeyWarning}

\* SetLastContent writing one message too early
SetLastButOneContent(ms, c) == [ms EXCEPT ![Len(ms) - 1].content = c]

\* st.session_state["messages"][-1]["content"] = c
SetLastContent(ms, c) == [ms EXCEPT ![Len(ms)].content = c]

\* SendGuard without the test of the client
SendGuardAnyClient(send, user_input) ==
    send /\ Strip(user_input) # <<>>

\* the condition of the Send handler
SendGuard(send, user_input) ==
    send /\ Strip(user_input) # <<>> /\ client # <<>>

\* AppendTurn with the two appends in the other order
AppendTurnSwapped(ms, user_input) ==
    ms \o << [role |-> "assistant", content |-> <<>>],
             [role |-> "user", content |-> user_input] >>

\* the two appends of the Send handler
AppendTurn(ms, user_input) ==
    ms \o << [role |-> "user", content |-> user_input],
             [role |-> "assistant", content |-> <<>>] >>

\* a call of client.chat.completions.stream / .create: its arguments, and
\* the key of the client it is made through ("" for no client)
Request(kind, ms) ==
    [kind |-> kind, model |-> model, messages |-> ms,
     max_tokens |-> max_tokens, temperature |-> temperature,
     api_key |-> IF client = <<>> THEN "" ELSE client[1]]

\* NeedsFallback ignoring streamed
NeedsFallbackAlways(s) == TRUE

\* "if not streamed": the blocking call is made
NeedsFallback(s) == ~s

\* AssignContent that keeps what was streamed
AppendContent(old, content) == old \o content

\* assistant_content = content
AssignContent(old, content) == content

\* the inner except clause: the exception is dropped, streamed is reset
InnerExcept == [streamed |-> FALSE, escapes |-> FALSE]

\* OuterExcept with a message that leaves the exception out
OuterExceptGeneric(e) ==
    [content |-> <<"Error generating response">>, escapes |-> FALSE]

\* OuterExcept that shows the error and stores nothing
OuterExceptDisplayOnly(e) == [content |-> <<>>, escapes |-> FALSE]

\* the outer except clause: the exception becomes the content
OuterExcept(e) == [content |-> ErrorText(e), escapes |-> FALSE]

\* ClearedTranscript as an empty list
EmptyTranscript == <<>>

\* the transcript Clear stores
ClearedTranscript == <<[role |-> "system", content |-> <<"You are a helpful assistant.">>]>>

Init ==
    /\ messages = FreshTranscript
    /\ api_key_input = ""
    /\ env_key \in EnvKeys
    /\ model = DefaultModel
    /\ max_tokens = DefaultMaxTokens
    /\ temperature = DefaultTemperature
    /\ pc = "idle"
    /\ assistant_content = <<>>
    /\ streamed = FALSE
    /\ exported = <<>>
    /\ warnings = SetupWarnings(env_key)
    /\ lastOp = "init"
    /\ pre = FreshTranscript
    /\ submitted = <<>>
    /\ clears = 0
    /\ fragments = <<>>
    /\ nEvents = 0
    /\ lastEvent = <<>>
    /\ streamRaised = FALSE
    /\ requests = <<>>
    /\ respGot = <<>>
    /\ errGot = <<>>
    /\ fault = FALSE
    /\ heap = NoHeap
    /\ sessions = NoSessions
    /\ validation = NoValidation

\* A run begins: the locals and the history of the run before are gone.
BeginRun(op, text) ==
    /\ pc = "idle"
    /\ lastOp' = op
    /\ pre' = messages
    /\ submitted' = text
    /\ assistant_content' = <<>>
    /\ streamed' = FALSE
    /\ fragments' = <<>>
    /\ nEvents' = 0
    /\ lastEvent' = <<>>
    /\ streamRaised' = FALSE
    /\ respGot' = <<>>
    /\ errGot' = <<>>
    /\ fault' = FALSE
    /\ UNCHANGED <<heap, sessions, validation>>

\* The settings form is submitted.
Save(s, k) ==
    /\ BeginRun("save", <<>>)
    /\ api_key_input' = k
    /\ model' = s.model
    /\ max_tokens' = s.max_tokens
    /\ temperature' = s.temperature
    /\ warnings' = SetupWarnings(IF env_key # "" THEN env_key ELSE k)
    /\ exported' = <<>>
    /\ clears' = 0
    /\ requests' = <<>>
    /\ pc' = "idle"
    /\ UNCHANGED <<messages, env_key>>

\* "Export chat as JSON" is pressed.
Export ==
    /\ BeginRun("export", <<>>)
    /\ exported' = <<Dumps(messages)>>
    /\ warnings' = SetupWarnings(get_api_key)
    /\ clears' = 0
    /\ requests' = <<>>
    /\ pc' = "idle"
    /\ UNCHANGED <<messages, settings>>

\* Clear that resets the input box only
ClearInputOnly ==
    /\ BeginRun("clear", <<>>)
    /\ clears' = IF clears < 2 THEN clears + 1 ELSE 2
    /\ exported' = <<>>
    /\ warnings' = SetupWarnings(get_api_key)
    /\ requests' = <<>>
    /\ pc' = "idle"
    /\ UNCHANGED <<messages, settings>>

\* "Clear chat" is pressed.  The write to st.session_state["user_input"]
\* comes after the text area was created: Streamlit refuses it and the
\* except clause drops the refusal.
Clear ==
    /\ BeginRun("clear", <<>>)
    /\ messages' = ClearedTranscript
    /\ clears' = IF clears < 2 THEN clears + 1 ELSE 2
    /\ exported' = <<>>
    /\ warnings' = SetupWarnings(get_api_key)
    /\ requests' = <<>>
    /\ pc' = "idle"
    /\ UNCHANGED settings

\* "Send" is pressed and the handler's condition is false.
SendSkipped(user_input) ==
    /\ BeginRun("send_skipped", user_input)
    /\ ~SendGuard(TRUE, user_input)
    /\ warnings' = SetupWarnings(get_api_key)
                   \cup (IF client = <<>> THEN {CannotSendWarning} ELSE {})
    /\ exported' = <<>>
    /\ clears' = 0
    /\ requests' = <<>>
    /\ pc' = "idle"
    /\ UNCHANGED <<messages, settings>>

\* "Send" is pressed: the two appends and the call of .stream(...).
SendStart(user_input) ==
    /\ BeginRun("send", user_input)
    /\ SendGuard(TRUE, user_input)
    /\ Len(messages) < 1 + 2 * MaxTurns
    /\ messages' = AppendTurn(messages, user_input)
    /\ requests' = <<Request("stream", messages')>>
    /\ warnings' = {}
    /\ exported' = <<>>
    /\ clears' = 0
    /\ pc' = "stream"
    /\ UNCHANGED settings

\* The Send run leaves the inner try with streamed = s and transcript ms:
\* the blocking call is made, or the run is over.
AfterStream(s, ms) ==
    IF NeedsFallback(s)
    THEN /\ requests' = Append(requests, Request("create", ms))
         /\ pc' = "block"
    ELSE /\ requests' = requests
         /\ pc' = "idle"

\* The streaming attempt raises: in .stream(...), or between two events.
StreamFails ==
    /\ streamRaised' = TRUE
    /\ streamed' = InnerExcept.streamed
    /\ fault' = InnerExcept.escapes
    /\ IF InnerExcept.escapes
       THEN pc' = "idle" /\ requests' = requests
       ELSE AfterStream(InnerExcept.streamed, messages)
    /\ nEvents' = 0
    /\ UNCHANGED <<messages, assistant_content, fragments>>

StreamRaise ==
    /\ pc = "stream"
    /\ StreamFails
    /\ lastEvent' = <<>>
    /\ UNCHANGED <<settings, exported, warnings, lastOp, pre, submitted, clears,
                   respGot, errGot, heap, sessions, validation>>

\* The stream delivers an event.
StreamEvent(event) ==
    /\ pc = "stream"
    /\ nEvents < MaxEvents
    /\ lastEvent' = <<event>>
    /\ LET delta == ExtractDelta(event) IN
       IF ~Truthy(delta)
       THEN /\ nEvents' = nEvents + 1
            /\ UNCHANGED <<messages, assistant_content, streamed, fragments,
                           streamRaised, requests, pc, fault>>
       ELSE IF IsStr(delta)
       THEN /\ nEvents' = nEvents + 1
            /\ assistant_content' = AppendDelta(assistant_content, delta.v)
            /\ messages' = SetLastContent(messages, assistant_content')
            /\ streamed' = TRUE
            /\ fragments' = Append(fragments, delta.v)
            /\ UNCHANGED <<streamRaised, requests, pc, fault>>
       \* str += a value that is no str: TypeError
       ELSE StreamFails
    /\ UNCHANGED <<settings, exported, warnings, lastOp, pre, submitted, clears,
                   respGot, errGot, heap, sessions, validation>>

\* The stream ends.
StreamEnd ==
    /\ pc = "stream"
    /\ AfterStream(streamed, messages)
    /\ nEvents' = 0
    /\ lastEvent' = <<>>
    /\ UNCHANGED <<messages, settings, assistant_content, streamed, exported,
                   warnings, lastOp, pre, submitted, clears, fragments,
                   streamRaised, respGot, errGot, fault, heap, sessions,
                   validation>>

\* The blocking call returns r.
BlockReturn(r) ==
    /\ pc = "block"
    /\ respGot' = <<r>>
    /\ lastEvent' = <<>>
    /\ assistant_content' = AssignContent(assistant_content, FinalContent(r).v)
    /\ messages' = SetLastContent(messages, assistant_content')
    /\ pc' = "idle"
    /\ UNCHANGED <<settings, streamed, exported, warnings, lastOp, pre,
                   submitted, clears, fragments, nEvents, streamRaised,
                   requests, errGot, fault, heap, sessions, validation>>

\* The blocking call raises an exception whose str() is e.
BlockRaise(e) ==
    /\ pc = "block"
    /\ errGot' = <<e>>
    /\ lastEvent' = <<>>
    /\ fault' = OuterExcept(e).escapes
    /\ messages' = IF OuterExcept(e).escapes THEN messages
                   ELSE SetLastContent(messages, OuterExcept(e).content)
    /\ pc' = "idle"
    /\ UNCHANGED <<settings, assistant_content, streamed, exported, warnings,
                   lastOp, pre, submitted, clears, fragments, nEvents, streamRaised,
                   requests, respGot, heap, sessions, validation>>

Next ==
    \/ \E s \in SettingsChoices, k \in InputKeys : Save(s, k)
    \/ Export
    \/ Clear
    \/ \E t \in UserTexts : SendSkipped(t)
    \/ \E t \in UserTexts : SendStart(t)
    \/ \E i \in DOMAIN Events : StreamEvent(Events[i])
    \/ StreamRaise
    \/ StreamEnd
    \/ \E i \in DOMAIN Responses : BlockReturn(Responses[i])
    \/ \E i \in DOMAIN Errors : BlockRaise(Errors[i])

Spec == Init /\ [][Next]_vars

----------------------------------------------------------------------------
\* Properties.

Last(ms) == ms[Len(ms)]
\* a Send run is over
SendDone == lastOp = "send" /\ pc = "idle"
\* the blocking calls of the run
Creates == {i \in DOMAIN requests : requests[i].kind = "create"}
Streams == {i \in DOMAIN requests : requests[i].kind = "stream"}

\* Send was pressed and the run it started is over
SendReturned == lastOp \in {"send", "send_skipped"} /\ pc = "idle"

\* the postcondition of send
SendPost ==
    /\ lastOp = "send"
    /\ Len(messages) = Len(pre) + 2
    /\ Last(messages).role = "assistant"
    /\ Last(messages).content # <<>>
    /\ ~fault

\* C1 (as claimed): when Send was pressed with a non-empty text and a
\* client, then after the run the transcript holds exactly two more
\* messages, the last an assistant message with non-empty content, and no
\* exception left the handler.
C1_SendTotalNonEmpty ==
    SendReturned /\ submitted # <<>> /\ client # <<>> => SendPost

\* C1 (amended): when Send was pressed with a text that is not empty after
\* stripping whitespace and a client, then after the run, whatever the two
\* transports did, the transcript holds exactly two more messages than
\* when the run began, the last an assistant message with non-empty
\* content, and no exception left the handler at any point of the run.
C1_SendTotal ==
    /\ lastOp = "send" => ~fault
    /\ SendReturned /\ Strip(submitted) # <<>> /\ client # <<>> => SendPost

\* the stream raised, then the blocking call raised an exception whose
\* description is empty
C1_Witness ==
    /\ SendDone
    /\ streamRaised
    /\ errGot = << <<>> >>

\* C2: a blocking call is made only once the streaming attempt has raised
\* or ended without a fragment, it is made in every such run, at most once,
\* and when it returns the assistant content is the non-empty text taken
\* from its response.
C2_FallbackIff ==
    /\ Cardinality(Creates) <= 1
    /\ pc = "block" => Creates # {}
    /\ Creates # {} => pc # "stream" /\ (streamRaised \/ fragments = <<>>)
    /\ SendDone => (Creates # {} <=> (streamRaised \/ fragments = <<>>))
    /\ SendDone /\ respGot # <<>> =>
        /\ Creates # {}
        /\ Last(messages).content # <<>>
        /\ Last(messages).content = FinalContent(respGot[1]).v

\* the stream ended without a fragment and the blocking call returned
C2_Witness ==
    /\ SendDone
    /\ ~streamRaised
    /\ fragments = <<>>
    /\ respGot # <<>>
    /\ Cardinality(Creates) = 1

\* C3 (as claimed): every blocking call of a run carries the model,
\* max_tokens, temperature and transcript of the run's streaming call.
C3_IdenticalParameters ==
    \A i \in Creates : \A j \in Streams :
        /\ requests[i].model = requests[j].model
        /\ requests[i].max_tokens = requests[j].max_tokens
        /\ requests[i].temperature = requests[j].temperature
        /\ requests[i].messages = requests[j].messages

\* C4: while the fragments of a Send run have not been replaced by the
\* fallback's outcome, the content of the last message is the concatenation,
\* in arrival order, of the non-empty fragments processed so far; with the
\* fragments "Hi", " there!" on the transcript [system] the run ends with
\* three messages, the last being {assistant, "Hi there!"}.
C4_ArrivalOrder ==
    /\ lastOp = "send" /\ respGot = <<>> /\ errGot = <<>> =>
        /\ Last(messages).content = Concat(fragments)
        /\ assistant_content = Concat(fragments)
    /\ SendDone /\ streamed /\ pre = FreshTranscript
       /\ fragments = << <<"Hi">>, <<" there!">> >> =>
        /\ Len(messages) = 3
        /\ Last(messages) = [role |-> "assistant",
                             content |-> <<"Hi", " there!">>]

\* the run of the scenario, over
C4_Witness ==
    /\ SendDone
    /\ streamed
    /\ pre = FreshTranscript
    /\ fragments = << <<"Hi">>, <<" there!">> >>

\* the last Len(e) chunks of text are e
EndsWith(text, e) ==
    /\ Len(text) >= Len(e)
    /\ SubSeq(text, Len(text) - Len(e) + 1, Len(text)) = e

\* C5: when the blocking call has raised, the run is over, the content of
\* the placeholder is an error message that ends with the description of
\* the exception and is longer than it, the run has made the streaming call
\* and the one blocking call and no other, and the transcript holds two
\* more messages than when the run began.
C5_FallbackRaises ==
    errGot # <<>> =>
        /\ pc = "idle"
        /\ Len(Last(messages).content) > Len(errGot[1])
        /\ Head(Last(messages).content) = "Error: "
        /\ EndsWith(Last(messages).content, errGot[1])
        /\ Len(requests) = 2
        /\ requests[1].kind = "stream"
        /\ requests[2].kind = "create"
        /\ Len(messages) = Len(pre) + 2

\* the stream raised after a fragment, then the blocking call timed out
C5_Witness ==
    /\ errGot = << <<"timeout">> >>
    /\ fragments # <<>>
    /\ streamRaised

\* the blocking call returned and neither strategy took text from it
NothingExtracted ==
    /\ SendDone
    /\ respGot # <<>>
    /\ ~Truthy(ExtractContent(respGot[1].val))

\* C6 (as claimed): when the blocking call returns and no strategy yields
\* text, the content is the fixed sentinel message.
C6_SentinelAlways ==
    NothingExtracted => Last(messages).content = NoTextSentinel

\* C6 (amended): when the blocking call returns and no strategy yields
\* text, the content is the string form of the response, the fixed sentinel
\* message only when taking that string form raises, and it is not empty.
C6_StringFormOrSentinel ==
    NothingExtracted =>
        /\ Last(messages).content # <<>>
        /\ Last(messages).content =
              IF IsRaise(respGot[1].str) THEN NoTextSentinel
              ELSE respGot[1].str.v

\* a mapping without choices came back: its string form is the content
C6_Witness ==
    /\ NothingExtracted
    /\ ~IsRaise(respGot[1].str)
    /\ IsDict(respGot[1].val)

\* C7: the transcript is never empty, its first message is a system
\* message and no other message is.
C7_OneSystemFirst ==
    /\ Len(messages) >= 1
    /\ messages[1].role = "system"
    /\ \A i \in 2..Len(messages) : messages[i].role # "system"

\* in the middle of the stream of a second turn
C7_Witness ==
    /\ pc = "stream"
    /\ Len(messages) = 5
    /\ fragments # <<>>

\* C8: after the system message the roles alternate user, assistant, so no
\* two assistant messages are adjacent; an assistant message with empty
\* content is the last message of a Send run still in progress.
C8_Alternation ==
    /\ \A i \in 2..Len(messages) :
          messages[i].role = IF i % 2 = 0 THEN "user" ELSE "assistant"
    /\ \A i \in 1..(Len(messages) - 1) :
          ~(messages[i].role = "assistant" /\ messages[i + 1].role = "assistant")
    /\ \A i \in DOMAIN messages :
          messages[i].role = "assistant" /\ messages[i].content = <<>> =>
              i = Len(messages) /\ pc # "idle" /\ lastOp = "send"

\* the placeholder of a second turn, still empty while the blocking call runs
C8_Witness ==
    /\ pc = "block"
    /\ Len(messages) = 5
    /\ Last(messages).content = <<>>

\* C9: every step to a state of a Send run leaves the transcript of the
\* start of the run as a prefix, followed by a user and an assistant
\* message; a step inside the run changes nothing but the content of the
\* last message.
C9_PrefixKept ==
    [][ lastOp' = "send" =>
          /\ Len(messages') = Len(pre') + 2
          /\ SubSeq(messages', 1, Len(pre')) = pre'
          /\ messages'[Len(pre') + 1].role = "user"
          /\ Last(messages').role = "assistant"
          /\ lastOp = "send" /\ pc # "idle" =>
                /\ pre' = pre
                /\ Len(messages') = Len(messages)
                /\ \A i \in 1..(Len(messages) - 1) : messages'[i] = messages[i]
      ]_vars

\* a second turn whose streamed fragment was replaced by the blocking reply
C9_Witness ==
    /\ SendDone
    /\ Len(pre) = 3
    /\ fragments # <<>>
    /\ respGot # <<>>

\* C10: after Clear, once or several times in a row, the transcript is the
\* single system message "You are a helpful assistant." and nothing else.
C10_ResetIdempotent ==
    lastOp = "clear" =>
        messages = << [role |-> "system",
                       content |-> <<"You are a helpful assistant.">>] >>

\* Clear was pressed twice in a row
C10_Witness ==
    /\ lastOp = "clear"
    /\ clears = 2

\* C11: when Send is pressed and there is no client, the run makes no call
\* to the client, leaves the transcript as it was and shows the warning
\* that the client is not configured; no Send run proceeds without a
\* client.
C11_NoClientShortCircuit ==
    /\ lastOp = "send" => client # <<>>
    /\ lastOp = "send_skipped" /\ client = <<>> =>
        /\ pc = "idle"
        /\ requests = <<>>
        /\ messages = pre
        /\ CannotSendWarning \in warnings

\* Send pressed with a text, after the key that served a first turn was removed
C11_Witness ==
    /\ lastOp = "send_skipped"
    /\ client = <<>>
    /\ Strip(submitted) # <<>>
    /\ Len(messages) = 3

\* C14: every call to the client is made with the environment key when
\* that key is set and non-empty, whatever was pasted, and with the pasted
\* key otherwise; when both are empty there is no client, no call is made
\* and the page warns that no key was found.
C14_EnvKeyFirst ==
    /\ \A i \in DOMAIN requests :
          /\ requests[i].api_key # ""
          /\ env_key # "" => requests[i].api_key = env_key
          /\ env_key = "" => requests[i].api_key = api_key_input
    /\ env_key = "" /\ api_key_input = "" => client = <<>> /\ requests = <<>>
    /\ client = <<>> => env_key = "" /\ api_key_input = ""
    /\ NoKeyWarning \in warnings <=> (env_key = "" /\ api_key_input = "")

\* a call made while both the environment key and a pasted key are set
C14_Witness ==
    /\ requests # <<>>
    /\ env_key # ""
    /\ api_key_input # ""
    /\ env_key # api_key_input

\* C17: when the stream raised after at least one fragment and the
\* blocking call then returned, the content of the last message is the
\* text taken from the blocking response alone; the streamed fragments are
\* gone.
C17_FallbackOverwrites ==
    SendDone /\ streamRaised /\ fragments # <<>> /\ respGot # <<>> =>
        /\ Last(messages).content = FinalContent(respGot[1]).v
        /\ assistant_content = FinalContent(respGot[1]).v
        /\ Len(Last(messages).content) < Len(Concat(fragments))
                                         + Len(FinalContent(respGot[1]).v)

\* one fragment, then the stream raised, then the SDK object came back
C17_Witness ==
    /\ SendDone
    /\ streamRaised
    /\ fragments = << <<" there!">> >>
    /\ respGot # <<>>
    /\ Last(messages).content = <<"Hi">>

\* C18: between runs every assistant message of the transcript has
\* non-empty content.
C18_NoEmptyAssistantAtRest ==
    pc = "idle" =>
        \A i \in DOMAIN messages :
            messages[i].role = "assistant" => messages[i].content # <<>>

\* a second turn whose stream was empty and whose blocking call raised an
\* exception without description
C18_Witness ==
    /\ SendDone
    /\ Len(messages) = 5
    /\ fragments = <<>>
    /\ errGot = << <<>> >>

\* C19: when Send is pressed with a text that is empty or whitespace only,
\* the run makes no call to the client and leaves the transcript as it
\* was; no Send run proceeds with such a text.
C19_BlankTextSkipped ==
    /\ lastOp = "send" => \E i \in DOMAIN submitted : submitted[i] \notin {" ", "\n"}
    /\ lastOp = "send_skipped"
       /\ (\A i \in DOMAIN submitted : submitted[i] \in {" ", "\n"}) =>
        /\ pc = "idle"
        /\ requests = <<>>
        /\ messages = pre

\* Send pressed with a blank after a first turn, a client being there
C19_Witness ==
    /\ lastOp = "send_skipped"
    /\ submitted = <<" ">>
    /\ client # <<>>
    /\ Len(messages) = 3

\* the place of an event in Events
EventIndex(event) == CHOOSE i \in DOMAIN Events : Events[i] = event

\* what order-of-preference extraction takes from each event of Events:
\* 1 the delta dict, 2 the mapping, 3 the text attribute (nothing else
\* applies), 4 nothing (delta is no dict), 5 nothing (the delta dict holds
\* ""), 6 the mapping (delta raises), 7 the text attribute (delta holds
\* None, the mapping raises), 8 nothing that is text
PreferredFragment ==
    << <<"Hi">>, <<" there!">>, <<" there!">>, <<>>, <<>>, <<" there!">>,
       <<"Hi">>, <<>> >>

\* C16: a step that processes a streaming event appends to the assistant
\* content the fragment of the first strategy, in the order delta field,
\* mapping, text field, that applies without raising and gives a value;
\* when no strategy gives non-empty text the transcript is unchanged, no
\* exception leaves the handler and the run goes on.
C16_OrderOfPreference ==
    [][ lastEvent' # <<>> =>
          LET f == PreferredFragment[EventIndex(lastEvent'[1])] IN
          /\ pc = "stream"
          /\ ~fault'
          /\ IF f # <<>>
             THEN /\ Last(messages').content = Last(messages).content \o f
                  /\ assistant_content' = assistant_content \o f
                  /\ pc' = "stream"
             ELSE /\ messages' = messages
                  /\ assistant_content' = assistant_content
                  /\ pc' \in {"stream", "block"}
      ]_vars

\* a fragment was streamed, then the text attribute of an event whose
\* delta holds None and whose mapping raises was appended
C16_Witness ==
    /\ lastEvent = <<Events[7]>>
    /\ fragments = << <<" there!">>, <<"Hi">> >>
    /\ Last(messages).content = <<" there!", "Hi">>

-----------------------------------------------------------------------------
\* Parsing an exported document (json.loads of the output of json.dumps).

JsonUnescape(c) ==
    CASE c = "\\\"" -> "\""
      [] c = "\\\\" -> "\\"
      [] c = "\\n" -> "\n"
      [] OTHER -> c

ParseFail == [ok |-> FALSE, val |-> <<>>, next |-> 0]
At(doc, i) == IF i \in DOMAIN doc THEN doc[i] ELSE ""
IsSpace(t) == t \in {"\n", "\n  ", "\n    "}

RECURSIVE SkipSpace(_, _)
SkipSpace(doc, i) ==
    IF IsSpace(At(doc, i)) THEN SkipSpace(doc, i + 1) ELSE i

\* the chunks up to the closing quote; a bare quote closes the string, a
\* bare backslash or line break is no part of a JSON string
RECURSIVE StringBody(_, _, _)
StringBody(doc, i, acc) ==
    IF i \notin DOMAIN doc THEN ParseFail
    ELSE IF doc[i] = "\"" THEN [ok |-> TRUE, val |-> acc, next |-> i + 1]
    ELSE IF doc[i] = "\\" \/ IsSpace(doc[i]) THEN ParseFail
    ELSE StringBody(doc, i + 1, Append(acc, JsonUnescape(doc[i])))

ParseString(doc, i) ==
    IF At(doc, i) = "\"" THEN StringBody(doc, i + 1, <<>>) ELSE ParseFail

\* key: "..." after optional white space
ParseMember(doc, i, key) ==
    LET j == SkipSpace(doc, i) IN
    IF At(doc, j) = key /\ At(doc, j + 1) = ": "
    THEN ParseString(doc, j + 2) ELSE ParseFail

\* {"role": "...", "content": "..."}
ParseObject(doc, i) ==
    IF At(doc, i) # "{" THEN ParseFail
    ELSE LET r == ParseMember(doc, i + 1, "\"role\"") IN
         IF ~r.ok \/ Len(r.val) # 1 \/ At(doc, r.next) # "," THEN ParseFail
         ELSE LET c == ParseMember(doc, r.next + 1, "\"content\"")
                  j == SkipSpace(doc, c.next) IN
              IF ~c.ok \/ At(doc, j) # "}" THEN ParseFail
              ELSE [ok |-> TRUE,
                    val |-> [role |-> r.val[1], content |-> c.val],
                    next |-> j + 1]

RECURSIVE ParseItems(_, _, _)
ParseItems(doc, i, acc) ==
    LET o == ParseObject(doc, SkipSpace(doc, i)) IN
    IF ~o.ok THEN ParseFail
    ELSE LET k == SkipSpace(doc, o.next) IN
         IF At(doc, k) = "," THEN ParseItems(doc, k + 1, Append(acc, o.val))
         ELSE IF At(doc, k) = "]" /\ k = Len(doc)
              THEN [ok |-> TRUE, val |-> Append(acc, o.val), next |-> k + 1]
              ELSE ParseFail

Loads(doc) ==
    IF doc = <<"[]">> THEN [ok |-> TRUE, val |-> <<>>, next |-> 2]
    ELSE IF At(doc, 1) = "[" THEN ParseItems(doc, 2, <<>>)
    ELSE ParseFail

\* texts with the characters json.dumps escapes
ExportTexts ==
    { <<"Say ", "\"", "hi", "\"">>, <<"\\", "n">>, <<"a", "\n", "b">> }

\* transcripts of n turns after the system message
RECURSIVE TurnsOf(_)
TurnsOf(n) ==
    IF n = 0 THEN { FreshTranscript }
    ELSE { t \o <<[role |-> "user", content |-> u],
                  [role |-> "assistant", content |-> a]>> :
           t \in TurnsOf(n - 1), u \in ExportTexts, a \in ExportTexts }

ExportTranscripts == UNION { TurnsOf(n) : n \in 0..MaxTurns }

\* a session at rest with some transcript
InitExport ==
    /\ messages \in ExportTranscripts
    /\ api_key_input = ""
    /\ env_key \in EnvKeys
    /\ model = DefaultModel
    /\ max_tokens = DefaultMaxTokens
    /\ temperature = DefaultTemperature
    /\ pc = "idle"
    /\ assistant_content = <<>>
    /\ streamed = FALSE
    /\ exported = <<>>
    /\ warnings = SetupWarnings(env_key)
    /\ lastOp = "init"
    /\ pre = messages
    /\ submitted = <<>>
    /\ clears = 0
    /\ fragments = <<>>
    /\ nEvents = 0
    /\ lastEvent = <<>>
    /\ streamRaised = FALSE
    /\ requests = <<>>
    /\ respGot = <<>>
    /\ errGot = <<>>
    /\ fault = FALSE
    /\ heap = NoHeap
    /\ sessions = NoSessions
    /\ validation = NoValidation

NextExport == Export

SpecExport == InitExport /\ [][NextExport]_vars

\* C12: the exported document parses to a list equal, element by element
\* and in role and content, to the transcript, and the export leaves the
\* transcript as it was.
C12_ExportRoundTrip ==
    exported # <<>> =>
        /\ Loads(exported[1]).ok
        /\ Loads(exported[1]).val = messages
        /\ messages = pre

\* a transcript of two turns holding a quote, a backslash and a line break
\* was exported
C12_Witness ==
    /\ lastOp = "export"
    /\ exported # <<>>
    /\ Len(messages) = 5
    /\ messages[2].content = <<"Say ", "\"", "hi", "\"">>
    /\ messages[3].content = <<"\\", "n">>
    /\ messages[4].content = <<"a", "\n", "b">>

-----------------------------------------------------------------------------
\* Several sessions of the page in one process.  Each session has its own
\* st.session_state; a script run of one session waits on the transport
\* while runs of other sessions go on.

MaxSessionTurns == 1
MaxSessionEvents == 1

\* Alloc handing out one list object for every session
AllocShared == CHOOSE r \in Refs : \A q \in Refs : r <= q

\* the list a list display builds: an object no session_state refers to
Alloc == CHOOSE r \in Refs : \A s \in Sessions : sessions[s].ref # r

\* st.session_state["messages"] of session s, <<>> before its first run
Transcript(s) ==
    IF sessions[s].ref = 0 THEN <<>> ELSE heap[sessions[s].ref]

\* st.session_state["messages"] = [...] in session s: the new list is
\* stored, the list stored before is collected once nothing refers to it
AssignMessages(s, items) ==
    LET r == Alloc
        o == sessions[s].ref
    IN  /\ heap' = [q \in Refs |->
                      IF q = r THEN items
                      ELSE IF q = o /\ \A t \in Sessions \ {s} : sessions[t].ref # q
                           THEN <<>>
                           ELSE heap[q]]
        /\ sessions' = [sessions EXCEPT ![s] = [NoSession EXCEPT !.ref = r]]

\* the locals of the Send run of session s become l, its list becomes ms
SessionStep(s, l, ms) ==
    /\ sessions' = [sessions EXCEPT ![s] = l]
    /\ heap' = [heap EXCEPT ![sessions[s].ref] = ms]

\* The first script run of session s.
SessionOpen(s) ==
    /\ sessions[s].ref = 0
    /\ AssignMessages(s, FreshTranscript)
    /\ UNCHANGED <<page, validation>>

\* "Clear chat" in session s.
SessionClear(s) ==
    /\ sessions[s].ref # 0
    /\ sessions[s].pc = "idle"
    /\ AssignMessages(s, ClearedTranscript)
    /\ UNCHANGED <<page, validation>>

\* "Send" in session s: the two appends and the call of .stream(...).
SessionSendStart(s, user_input) ==
    /\ sessions[s].ref # 0
    /\ sessions[s].pc = "idle"
    /\ SendGuard(TRUE, user_input)
    /\ Len(Transcript(s)) < 1 + 2 * MaxSessionTurns
    /\ SessionStep(s, [NoSession EXCEPT !.ref = sessions[s].ref, !.pc = "stream"],
                   AppendTurn(Transcript(s), user_input))
    /\ UNCHANGED <<page, validation>>

\* the locals of session s after its inner try ended with streamed = st
SessionAfterStream(s, st) ==
    [sessions[s] EXCEPT !.streamed = st, !.nEvents = 0,
                        !.pc = IF NeedsFallback(st) THEN "block" ELSE "idle"]

\* The stream of session s delivers an event.
SessionStreamEvent(s, event) ==
    /\ sessions[s].pc = "stream"
    /\ sessions[s].nEvents < MaxSessionEvents
    /\ LET delta == ExtractDelta(event)
           l == sessions[s]
       IN  IF ~Truthy(delta)
           THEN SessionStep(s, [l EXCEPT !.nEvents = @ + 1], Transcript(s))
           ELSE IF IsStr(delta)
           THEN LET c == AppendDelta(l.assistant_content, delta.v) IN
                SessionStep(s, [l EXCEPT !.nEvents = @ + 1, !.streamed = TRUE,
                                         !.assistant_content = c],
                            SetLastContent(Transcript(s), c))
           ELSE SessionStep(s, SessionAfterStream(s, InnerExcept.streamed),
                            Transcript(s))
    /\ UNCHANGED <<page, validation>>

\* The stream of session s ends.
SessionStreamEnd(s) ==
    /\ sessions[s].pc = "stream"
    /\ SessionStep(s, SessionAfterStream(s, sessions[s].streamed), Transcript(s))
    /\ UNCHANGED <<page, validation>>

\* The streaming attempt of session s raises.
SessionStreamRaise(s) ==
    /\ sessions[s].pc = "stream"
    /\ SessionStep(s, SessionAfterStream(s, InnerExcept.streamed), Transcript(s))
    /\ UNCHANGED <<page, validation>>

\* The blocking call of session s returns r.
SessionBlockReturn(s, r) ==
    /\ sessions[s].pc = "block"
    /\ LET c == AssignContent(sessions[s].assistant_content, FinalContent(r).v) IN
       SessionStep(s, [sessions[s] EXCEPT !.assistant_content = c, !.pc = "idle"],
                   SetLastContent(Transcript(s), c))
    /\ UNCHANGED <<page, validation>>

\* The blocking call of session s raises an exception whose str() is e.
SessionBlockRaise(s, e) ==
    /\ sessions[s].pc = "block"
    /\ SessionStep(s, [sessions[s] EXCEPT !.pc = "idle"],
                   SetLastContent(Transcript(s), OuterExcept(e).content))
    /\ UNCHANGED <<page, validation>>

\* what the transport supplies to the sessions: an event with a fragment
\* and one without, a response, an exception
SessionEvents == <<Events[1], Events[4]>>
SessionResponses == <<Responses[1]>>
SessionErrors == <<Errors[1]>>

\* the process has a key in its environment
InitSessions ==
    /\ InitExport
    /\ messages = FreshTranscript
    /\ env_key # ""

NextSessions ==
    \E s \in Sessions :
        \/ SessionOpen(s)
        \/ SessionClear(s)
        \/ \E t \in UserTexts : SessionSendStart(s, t)
        \/ \E i \in DOMAIN SessionEvents : SessionStreamEvent(s, SessionEvents[i])
        \/ SessionStreamEnd(s)
        \/ SessionStreamRaise(s)
        \/ \E i \in DOMAIN SessionResponses :
              SessionBlockReturn(s, SessionResponses[i])
        \/ \E i \in DOMAIN SessionErrors : SessionBlockRaise(s, SessionErrors[i])

SpecSessions == InitSessions /\ [][NextSessions]_vars

\* C13: sessions that have a transcript hold different list objects, and a
\* step that leaves a session's own state alone (a send, a reset or a
\* first run of another session) leaves that session's transcript as it was.
C13_SessionIsolation ==
    [][ /\ \A s, t \in Sessions :
             s # t /\ sessions'[s].ref # 0 => sessions'[s].ref # sessions'[t].ref
        /\ \A s \in Sessions :
             sessions'[s] = sessions[s] =>
                 /\ sessions'[s].ref # 0 => heap'[sessions'[s].ref] = Transcript(s)
      ]_vars

\* session B is waiting on its stream with a fragment in its transcript
\* while session A, opened before it, has reset to a new list
C13_Witness ==
    /\ sessions["B"].pc = "stream"
    /\ Len(Transcript("B")) = 3
    /\ Last(Transcript("B")).content = <<"Hi">>
    /\ sessions["A"].ref > sessions["B"].ref
    /\ sessions["B"].ref > 0
    /\ Transcript("A") = ClearedTranscript

-----------------------------------------------------------------------------
\* The key validator: validate(credential, timeout) -> ValidationResult.

\* credentials the caller may pass, "" for none
ValidatorCredentials == {"", "sk-valid", "sk-revoked", "sk-limited", "not-a-key"}

\* what the transport may answer
Statuses == {200, 201, 204, 301, 400, 401, 403, 404, 429, 500, 502, 503}
ContentTypes == {"application/json", "text/html"}
NetworkErrors == {"timeout", "connection error"}

HttpOutcome(status, ctype) ==
    [kind |-> "http", status |-> <<status>>, ctype |-> ctype, error |-> ""]
NetworkOutcome(e) ==
    [kind |-> "network", status |-> <<>>, ctype |-> "", error |-> e]

\* the single GET to the model-listing endpoint
ModelsRequest(credential) ==
    [method |-> "GET", endpoint |-> "models", authorization |-> credential]

\* an absent credential is rejected before any network call
MissingCredential ==
    [ok |-> FALSE, status_code |-> <<>>, category |-> "missing credential",
     body_preview |-> "", error |-> "missing credential"]

Category(status) ==
    CASE status = 200 -> "ok"
      [] status = 401 -> "unauthorized / invalid key"
      [] status = 403 -> "forbidden / insufficient permissions"
      [] status = 429 -> "rate limited"
      [] OTHER -> "request failed"

BodyPreview(ctype) ==
    IF ctype = "application/json" THEN "parsed JSON"
    ELSE "first 2000 characters of raw body"

\* Classify taking every 2xx status for success
ClassifyAnySuccess(outcome) ==
    IF outcome.kind = "network"
    THEN [ok |-> FALSE, status_code |-> <<>>, category |-> "network failure",
          body_preview |-> "", error |-> outcome.error]
    ELSE LET status == outcome.status[1] IN
         [ok |-> status < 300, status_code |-> <<status>>,
          category |-> Category(status),
          body_preview |-> IF status < 300 THEN BodyPreview(outcome.ctype) ELSE "",
          error |-> ""]

\* the ValidationResult of a transport outcome
Classify(outcome) ==
    IF outcome.kind = "network"
    THEN [ok |-> FALSE, status_code |-> <<>>, category |-> "network failure",
          body_preview |-> "", error |-> outcome.error]
    ELSE LET status == outcome.status[1] IN
         [ok |-> status = 200, status_code |-> <<status>>,
          category |-> Category(status),
          body_preview |-> IF status = 200 THEN BodyPreview(outcome.ctype) ELSE "",
          error |-> ""]

\* validate is called without a credential.
ValidateRejected(credential) ==
    /\ validation.pc # "wait"
    /\ credential = ""
    /\ validation' = [NoValidation EXCEPT !.pc = "done",
                                          !.result = <<MissingCredential>>]
    /\ UNCHANGED <<page, heap, sessions>>

\* validate is called with a credential: the request is issued.
ValidateStart(credential) ==
    /\ validation.pc # "wait"
    /\ credential # ""
    /\ validation' = [NoValidation EXCEPT !.pc = "wait",
                                          !.credential = credential,
                                          !.request = <<ModelsRequest(credential)>>]
    /\ UNCHANGED <<page, heap, sessions>>

\* the transport ends the request with outcome o
ValidateOutcome(o) ==
    /\ validation.pc = "wait"
    /\ validation' = [validation EXCEPT !.pc = "done", !.outcome = <<o>>,
                                        !.result = <<Classify(o)>>]
    /\ UNCHANGED <<page, heap, sessions>>

\* An HTTP response arrives.
ValidateResponse(status, ctype) == ValidateOutcome(HttpOutcome(status, ctype))

\* The request fails before any response.
ValidateNetworkFailure(e) == ValidateOutcome(NetworkOutcome(e))

NextValidate ==
    \/ \E c \in ValidatorCredentials : ValidateRejected(c)
    \/ \E c \in ValidatorCredentials : ValidateStart(c)
    \/ \E st \in Statuses, ct \in ContentTypes : ValidateResponse(st, ct)
    \/ \E e \in NetworkErrors : ValidateNetworkFailure(e)

SpecValidate == Init /\ [][NextValidate]_vars

\* C15: a finished validation has ok = true exactly when the transport
\* answered the request with HTTP 200; any other status, a network failure
\* and a credential rejected without a request give ok = false.
C15_OkIffHttp200 ==
    validation.result # <<>> =>
        (validation.result[1].ok <=>
            /\ validation.outcome # <<>>
            /\ validation.outcome[1].kind = "http"
            /\ validation.outcome[1].status = <<200>>)

\* the request carrying the credential was answered with HTTP 200 and
\* validate returned ok
C15_Witness ==
    /\ validation.pc = "done"
    /\ validation.request = <<ModelsRequest("sk-valid")>>
    /\ validation.outcome = <<HttpOutcome(200, "application/json")>>
    /\ validation.result[1].ok

====
